---- MODULE Spec2Model ----
(***************************************************************************)
(* Follow-up lifecycle engine of hypatia:                                  *)
(*   FollowupService        hypatia_agent/services/followup_service.py     *)
(*   FollowupSchedulerWorker backend/workers/followup_scheduler.py         *)
(*   ReplyDetectorWorker    backend/workers/reply_detector.py              *)
(* over the REST store reached through SupabaseClient.request and the      *)
(* mail provider reached through GmailService.                             *)
(*                                                                         *)
(* The scheduled_followups table is a sequence of rows; the store-assigned *)
(* id of a row is its position.  A store request is one atomic step; the   *)
(* workers are split at their requests, so every interleaving of requests  *)
(* of the delivery worker, the reply handlers and the cancel endpoint is a *)
(* behaviour of Spec.                                                      *)
(***************************************************************************)
EXTENDS Integers, Sequences, FiniteSets, TLC

VARIABLES
    followups,      \* table scheduled_followups: Seq of rows, id = index
    now,            \* datetime.now(timezone.utc), a counter of clock ticks
    gmail_tokens,   \* table gmail_tokens: user -> [present, history_id]
    mailbox,        \* provider side: user -> Seq of messages, history id = index
    inflight,       \* Pub/Sub notifications delivered and not yet acked
    worker,         \* FollowupSchedulerWorker.run_once: position and locals
    handler,        \* ReplyDetectorWorker.process_message: position and locals per callback
    sends,          \* provider side: followup id -> number of emails sent for it
    auto_replies,   \* provider side: user -> inbound message -> number of automatic replies sent to it
    instant_respond,\* threads whose sent email or campaign has instant_respond_enabled
    replied,        \* ids of the follow-ups that were on a thread when a reply on it was handled (cancel path) and since acked
    call,           \* the last FollowupService call made through the API: arguments and result
    store,          \* how the REST store answers: "up", "http_error" (request returns None), "unreachable" (request raises)
    loop,           \* FollowupSchedulerWorker.run_loop: position, self.running and locals
    configs,        \* table followup_configs: Seq of rows, id = index
    worker2         \* run_once of a second FollowupSchedulerWorker instance

vars == <<followups, now, gmail_tokens, mailbox, inflight, worker, handler,
          sends, auto_replies, instant_respond, replied, call, store, loop, configs, worker2>>

-----------------------------------------------------------------------------
(* Bounds of the model *)

MaxRows == 2        \* rows the table may hold
MaxTime == 2        \* the clock runs 1..MaxTime
MaxPlan == 2        \* entries of one followup_plans list
MaxHistory == 2     \* inbound messages per mailbox where only the reply handlers run
MaxReplies == 1     \* inbound messages per mailbox where the delivery worker runs as well
MaxLimit == 2       \* limit arguments tried on get_due_followups through the API
MaxForeign == 1     \* messages in flight that are not notifications of the watch
MaxDay == 16        \* the clock of the default cadence runs 1..MaxDay, in days
MaxInterval == 2    \* interval_seconds of run_loop ranges over 0..MaxInterval
MaxConfigRows == 3  \* rows the followup_configs table may hold
MaxAutoReplies == 2 \* automatic replies sent to one inbound message
MaxSends == 3       \* emails sent for one follow-up
SmallBatch == 1     \* the limit of get_due_followups where a backlog is wanted: less than MaxRows

(* Program constants *)

BatchLimit == 50    \* run_once: get_due_followups(limit=50)

\* _default_config: the days of the three follow-ups
followup_1_days == 3
followup_2_days == 7
followup_3_days == 14
max_followups == 3

Users == {"u1", "u2"}
Threads == {"T1", "T2"}
Handlers == {"h1", "h2"}    \* callbacks the subscriber may run at once
OneHandler == {"h1"}
Times == 1..MaxTime
Ids == 1..MaxRows

\* SQL NULL / Python None of a text column, and of a numeric column
NULL == "null"
NoValue == 0

Terminal == {"sent", "cancelled", "skipped"}
Statuses == {"pending"} \cup Terminal

-----------------------------------------------------------------------------
(* SupabaseClient.request against the scheduled_followups table.           *)
(* A result is [ok, rows]: ok = FALSE is the None returned on an HTTPError *)
(* (or an empty response body); rows is the JSON array of the response.    *)
(* With "Prefer: return=representation" a PATCH answers 200 with the       *)
(* array of the rows it updated, the empty array when the filter matched   *)
(* no row.                                                                 *)

\* body applied to a row: the columns named in body are overwritten
Merge(row, body) ==
    [f \in DOMAIN row |-> IF f \in DOMAIN body THEN body[f] ELSE row[f]]

\* ids in ascending order (the order the table answers an unordered select)
RECURSIVE SetToSeq(_)
SetToSeq(S) ==
    IF S = {} THEN <<>>
    ELSE LET m == CHOOSE x \in S : \A y \in S : x <= y
         IN <<m>> \o SetToSeq(S \ {m})

\* PATCH scheduled_followups?<filter>: ids is the set of rows the filter matches
RequestPatch(table, ids, body) ==
    LET hit == ids \cap DOMAIN table
        new == [i \in DOMAIN table |->
                   IF i \in hit THEN Merge(table[i], body) ELSE table[i]]
    IN [table |-> new, ok |-> TRUE, rows |-> SetToSeq(hit)]

\* POST scheduled_followups: the store assigns the next id
RequestPost(table, record) ==
    [table |-> Append(table, record), ok |-> TRUE, rows |-> <<Len(table) + 1>>]

\* `if result:` -- neither None nor the empty list
Truthy(result) == result.ok /\ Len(result.rows) > 0

\* `result is not None`
IsNotNone(result) == result.ok

-----------------------------------------------------------------------------
(* FollowupService.  Every operation is an operator from the table (and    *)
(* its arguments) to [table, ret]: the table after the requests it makes   *)
(* and the value it returns.                                               *)

\* the record schedule_followups posts for one plan entry; the columns it
\* does not name take the table's defaults (NULL)
NewRecord(user_id, thread_id, scheduled_for) ==
    [user_id |-> user_id, thread_id |-> thread_id,
     scheduled_for |-> scheduled_for, status |-> "pending",
     status_reason |-> NULL, sent_at |-> NoValue,
     gmail_message_id |-> NoValue, error_message |-> NULL]

\* for plan in followup_plans: POST; created.append(result[0])
RECURSIVE ScheduleLoop(_, _, _, _, _)
ScheduleLoop(table, user_id, thread_id, plans, created) ==
    IF plans = <<>> THEN [table |-> table, ret |-> created]
    ELSE LET r == RequestPost(table, NewRecord(user_id, thread_id, Head(plans)))
         IN ScheduleLoop(r.table, user_id, thread_id, Tail(plans),
                         IF Truthy(r) THEN Append(created, r.rows[1]) ELSE created)

\* a wrong schedule_followups: nothing is posted for a thread on which the
\* user already has a pending row
schedule_followups_dedup(table, user_id, thread_id, plans) ==
    IF \E i \in DOMAIN table : /\ table[i].user_id = user_id
                               /\ table[i].thread_id = thread_id
                               /\ table[i].status = "pending"
    THEN [table |-> table, ret |-> <<>>]
    ELSE ScheduleLoop(table, user_id, thread_id, plans, <<>>)

schedule_followups(table, user_id, thread_id, plans) ==
    ScheduleLoop(table, user_id, thread_id, plans, <<>>)

\* order=scheduled_for.asc over the ids in S; rows of equal scheduled_for
\* come in id order
RECURSIVE OrderByScheduledFor(_, _)
OrderByScheduledFor(table, S) ==
    IF S = {} THEN <<>>
    ELSE LET m == CHOOSE x \in S : \A y \in S :
                      \/ table[x].scheduled_for < table[y].scheduled_for
                      \/ /\ table[x].scheduled_for = table[y].scheduled_for
                         /\ x <= y
         IN <<m>> \o OrderByScheduledFor(table, S \ {m})

\* limit=N
Limit(seq, n) == SubSeq(seq, 1, IF Len(seq) < n THEN Len(seq) ELSE n)

\* a wrong get_due_followups: the scheduled_for filter is dropped, so that
\* pending rows of the future are returned as well
get_due_followups_nofilter(table, t, limit) ==
    Limit(OrderByScheduledFor(table,
              {i \in DOMAIN table : table[i].status = "pending"}), limit)

\* status=eq.pending & scheduled_for=lte.now & order=scheduled_for.asc & limit
get_due_followups(table, t, limit) ==
    Limit(OrderByScheduledFor(table,
              {i \in DOMAIN table : /\ table[i].status = "pending"
                                    /\ table[i].scheduled_for <= t}), limit)

\* a wrong select: only the next pending row of the thread is returned
SelectPendingForThread_next(table, thread_id) ==
    Limit(SetToSeq({i \in DOMAIN table : /\ table[i].thread_id = thread_id
                                         /\ table[i].status = "pending"}), 1)

\* a wrong select: the rows of the thread whatever their status
SelectPendingForThread_any(table, thread_id) ==
    SetToSeq({i \in DOMAIN table : table[i].thread_id = thread_id})

\* GET scheduled_followups?thread_id=eq.T&status=eq.pending&select=id
SelectPendingForThread(table, thread_id) ==
    SetToSeq({i \in DOMAIN table : /\ table[i].thread_id = thread_id
                                   /\ table[i].status = "pending"})

\* PATCH scheduled_followups?id=eq.ID  {status: cancelled, status_reason}
PatchCancelled(table, id, reason) ==
    RequestPatch(table, {id}, [status |-> "cancelled", status_reason |-> reason])

\* for followup in pending: PATCH; if result: cancelled_count += 1
RECURSIVE CancelLoop(_, _, _, _)
CancelLoop(table, pending, reason, cancelled_count) ==
    IF pending = <<>> THEN [table |-> table, ret |-> cancelled_count]
    ELSE LET r == PatchCancelled(table, Head(pending), reason)
         IN CancelLoop(r.table, Tail(pending), reason,
                       IF Truthy(r) THEN cancelled_count + 1 ELSE cancelled_count)

\* a wrong cancel_followups_for_thread: only the first pending row of the
\* thread is cancelled
cancel_followups_for_thread_first(table, thread_id, reason) ==
    LET pending == SelectPendingForThread(table, thread_id)
    IN IF pending = <<>> THEN [table |-> table, ret |-> 0]
       ELSE CancelLoop(table, <<Head(pending)>>, reason, 0)

cancel_followups_for_thread(table, thread_id, reason) ==
    LET pending == SelectPendingForThread(table, thread_id)
    IN IF pending = <<>> THEN [table |-> table, ret |-> 0]
       ELSE CancelLoop(table, pending, reason, 0)

\* PATCH scheduled_followups?id=eq.ID&status=eq.pending; return result is not None
cancel_followup(table, followup_id, reason) ==
    LET r == RequestPatch(table,
                 {i \in {followup_id} \cap DOMAIN table : table[i].status = "pending"},
                 [status |-> "cancelled", status_reason |-> reason])
    IN [table |-> r.table, ret |-> IsNotNone(r)]

\* PATCH scheduled_followups?id=eq.ID; return result is not None
\* a wrong PATCH: the filter names the thread of the row, not its id
mark_followup_sent_thread(table, followup_id, gmail_message_id, t) ==
    LET result == RequestPatch(table,
                      {i \in DOMAIN table :
                          followup_id \in DOMAIN table
                          /\ table[i].thread_id = table[followup_id].thread_id},
                      [status |-> "sent", sent_at |-> t,
                       gmail_message_id |-> gmail_message_id])
    IN [table |-> result.table, ret |-> IsNotNone(result)]

mark_followup_sent(table, followup_id, gmail_message_id, t) ==
    LET r == RequestPatch(table, {followup_id},
                 [status |-> "sent", sent_at |-> t,
                  gmail_message_id |-> gmail_message_id])
    IN [table |-> r.table, ret |-> IsNotNone(r)]

\* a wrong mark_followup_failed: the row is put back in the queue
mark_followup_failed_requeue(table, followup_id, error_message) ==
    LET r == RequestPatch(table, {followup_id},
                 [status |-> "pending", status_reason |-> "send_error",
                  error_message |-> error_message])
    IN [table |-> r.table, ret |-> IsNotNone(r)]

\* PATCH scheduled_followups?id=eq.ID; return result is not None
mark_followup_failed(table, followup_id, error_message) ==
    LET r == RequestPatch(table, {followup_id},
                 [status |-> "skipped", status_reason |-> "send_error",
                  error_message |-> error_message])
    IN [table |-> r.table, ret |-> IsNotNone(r)]

\* a partial configuration: FollowupConfigUpdate.model_dump(exclude_none=True),
\* written as a record of the five fields in which a field the dict does
\* not hold is NoValue (NULL for enabled)
NoPartial == [followup_1_days |-> NoValue, followup_2_days |-> NoValue,
              followup_3_days |-> NoValue, max_followups |-> NoValue,
              enabled |-> NULL]

ConfigFields == DOMAIN NoPartial

Absent(config, f) == config[f] = NoPartial[f]

_default_config ==
    [followup_1_days |-> followup_1_days, followup_2_days |-> followup_2_days,
     followup_3_days |-> followup_3_days, max_followups |-> max_followups,
     enabled |-> "true"]

\* GET followup_configs?campaign_id=eq.C
SelectConfigs(table, campaign_id) ==
    SetToSeq({i \in DOMAIN table : table[i].campaign_id = campaign_id})

\* the row a POST of config creates: the columns the body does not name take
\* the defaults of the table, which the repository does not state (NoValue)
NewConfigRow(campaign_id, config) ==
    [campaign_id |-> campaign_id] @@ config

\* PATCH followup_configs?campaign_id=eq.C: the fields of config overwrite
PatchConfig(row, config) ==
    [f \in DOMAIN row |->
        IF f \in ConfigFields /\ ~Absent(config, f) THEN config[f] ELSE row[f]]

\* if not campaign_id: defaults; the first row of the campaign, or defaults
get_followup_config(table, campaign_id) ==
    IF campaign_id = NULL THEN _default_config
    ELSE LET result == SelectConfigs(table, campaign_id)
         IN IF result # <<>> THEN table[result[1]] ELSE _default_config

\* a wrong update_followup_config: the row is always inserted
update_followup_config_insert(table, campaign_id, config) ==
    [table |-> Append(table, NewConfigRow(campaign_id, config)),
     ret |-> NewConfigRow(campaign_id, config)]

\* existing = GET; PATCH when a row exists, else POST; return result[0]
update_followup_config(table, campaign_id, config) ==
    LET existing == SelectConfigs(table, campaign_id)
    IN IF existing # <<>>
       THEN LET new == [i \in DOMAIN table |->
                           IF table[i].campaign_id = campaign_id
                           THEN PatchConfig(table[i], config) ELSE table[i]]
            IN [table |-> new, ret |-> new[existing[1]]]
       ELSE [table |-> Append(table, NewConfigRow(campaign_id, config)),
             ret |-> NewConfigRow(campaign_id, config)]

-----------------------------------------------------------------------------
(* Initial state: empty tables, one user with a token row (u1) and one     *)
(* without (u2), nothing in flight, both workers constructed and idle.     *)

\* the provider's history id after k mailbox changes; setup_watch returns
\* WatchHistoryId for a mailbox without changes
WatchHistoryId == 1
HistoryIdOf(k) == WatchHistoryId + k

NoCall == [op |-> "none", id |-> NoValue, thread |-> NULL, limit |-> NoValue,
           reason |-> NULL, ok |-> FALSE, count |-> NoValue, rows |-> <<>>,
           user |-> NULL, plans |-> <<>>,
           campaign |-> NULL, config |-> NoPartial, result |-> NoPartial]

ZeroStats == [processed |-> 0, sent |-> 0, failed |-> 0, skipped |-> 0]

WorkerIdle == [pc |-> "idle", batch |-> <<>>, idx |-> 0, gmail_id |-> NoValue,
               error |-> NULL, stats |-> ZeroStats, sent_ok |-> {}, attempted |-> <<>>]

\* pending/ppos: the rows cancel_followups_for_thread selected and its loop
\* position; covered: the user's rows that were on a thread when its select ran
\* a notification without a previous delivery kept with it
NoPrior == <<>>

NoMessage == [emailAddress |-> NULL, historyId |-> NoValue, form |-> "json",
              prior |-> NoPrior]

\* ret: the value process_message returned; diffed: the loop over the diff
\* was finished; clean: every request of the cancellation was answered;
\* prior: the tables as they were when the previous delivery was nacked
HandlerIdle == [pc |-> "idle", msg |-> NoMessage, user |-> NULL,
                history_id |-> NoValue,
                stored |-> NoValue, changes |-> <<>>, pos |-> 0,
                thread |-> NULL, pending |-> <<>>, ppos |-> 0, covered |-> {},
                seen |-> {}, resync |-> FALSE, ret |-> FALSE, diffed |-> FALSE,
                clean |-> TRUE, prior |-> NoPrior]

\* run_loop is not running; run_once is called directly (--once)
NoLoop == [pc |-> "none", running |-> FALSE, i |-> 0, interval |-> 0,
           stopped |-> FALSE, ticks |-> 0, sleeps |-> 0]

\* the state after construction, given the provider's send counters and the
\* state of run_loop
InitWith(sends0, loop0) ==
    /\ followups = <<>>
    /\ now = 1
    /\ gmail_tokens = [u \in Users |->
                          [present |-> (u = "u1"), history_id |-> NoValue]]
    /\ mailbox = [u \in Users |-> <<>>]
    /\ inflight = {}
    /\ worker = WorkerIdle
    /\ handler = [h \in Handlers |-> HandlerIdle]
    /\ sends = sends0
    /\ auto_replies = [u \in Users |-> [k \in 1..MaxHistory |-> 0]]
    /\ instant_respond = {}
    /\ replied = {}
    /\ call = NoCall
    /\ store = "up"
    /\ loop = loop0
    /\ configs = <<>>
    /\ worker2 = WorkerIdle

Init == InitWith([i \in Ids |-> 0], NoLoop)

-----------------------------------------------------------------------------
(* The environment: the clock and the planner.                             *)

\* time passes
Tick ==
    /\ now < MaxTime
    /\ now' = now + 1
    /\ UNCHANGED <<followups, gmail_tokens, mailbox, inflight, worker, handler,
                   sends, auto_replies, instant_respond, replied, call, store, loop, configs, worker2>>

\* the followup_plans lists tried: 1..MaxPlan entries, any scheduled_for
Plans == UNION {[1..n -> Times] : n \in 1..MaxPlan}

-----------------------------------------------------------------------------
(* FollowupService called on its own (the API of the store component):     *)
(* one action per method, the call and its result recorded in `call`.      *)

ApiUnchanged == UNCHANGED <<now, gmail_tokens, mailbox, inflight, worker, handler,
                            sends, auto_replies, instant_respond, replied, store, loop, configs, worker2>>

ApiSchedule ==
    \E u \in Users, t \in Threads, plans \in Plans :
        /\ Len(followups) + Len(plans) <= MaxRows
        /\ LET r == schedule_followups(followups, u, t, plans)
           IN /\ followups' = r.table
              /\ call' = [NoCall EXCEPT !.op = "schedule_followups", !.thread = t,
                                        !.user = u, !.plans = plans,
                                        !.rows = r.ret]
        /\ ApiUnchanged

ApiGetDue ==
    \E limit \in 1..MaxLimit :
        /\ call' = [NoCall EXCEPT !.op = "get_due_followups", !.limit = limit,
                                  !.rows = get_due_followups(followups, now, limit)]
        /\ UNCHANGED followups
        /\ ApiUnchanged

ApiCancelThread ==
    \E t \in Threads, reason \in {"reply_detected"} :
        /\ LET r == cancel_followups_for_thread(followups, t, reason)
           IN /\ followups' = r.table
              /\ call' = [NoCall EXCEPT !.op = "cancel_followups_for_thread",
                                        !.thread = t, !.reason = reason,
                                        !.count = r.ret]
        /\ ApiUnchanged

\* followup_id ranges over the ids the table may assign: the row may not exist
ApiCancel ==
    \E id \in Ids :
        /\ LET r == cancel_followup(followups, id, "manual_cancel")
           IN /\ followups' = r.table
              /\ call' = [NoCall EXCEPT !.op = "cancel_followup", !.id = id,
                                        !.reason = "manual_cancel",
                                        !.ok = r.ret]
        /\ ApiUnchanged

ApiMarkSent ==
    \E id \in Ids :
        /\ LET r == mark_followup_sent(followups, id, id, now)
           IN /\ followups' = r.table
              /\ call' = [NoCall EXCEPT !.op = "mark_followup_sent", !.id = id,
                                        !.ok = r.ret]
        /\ ApiUnchanged

ApiMarkFailed ==
    \E id \in Ids :
        /\ LET r == mark_followup_failed(followups, id, "Gmail API error")
           IN /\ followups' = r.table
              /\ call' = [NoCall EXCEPT !.op = "mark_followup_failed", !.id = id,
                                        !.ok = r.ret]
        /\ ApiUnchanged

Campaigns == {"c1", "c2"}

\* the partial configurations tried: at least one field given (the endpoint
\* refuses an empty one)
Partials ==
    {[NoPartial EXCEPT !.followup_1_days = d, !.max_followups = n, !.enabled = e] :
        d \in {NoValue, 1, 5}, n \in {NoValue, 2}, e \in {NULL, "false"}}
    \ {NoPartial}

ConfigUnchanged == UNCHANGED <<followups, now, gmail_tokens, mailbox, inflight, worker,
                               handler, sends, auto_replies, instant_respond, replied,
                               store, loop, worker2>>

\* get_followup_config(campaign_id); campaign_id may be None
ApiGetConfig ==
    \E c \in Campaigns \cup {NULL} :
        /\ call' = [NoCall EXCEPT !.op = "get_followup_config", !.campaign = c,
                                  !.result = get_followup_config(configs, c)]
        /\ UNCHANGED configs
        /\ ConfigUnchanged

\* PATCH /campaigns/{campaign_id}/followup-config
ApiUpdateConfig ==
    \E c \in Campaigns, config \in Partials :
        /\ Len(configs) < MaxConfigRows
        /\ LET r == update_followup_config(configs, c, config)
           IN /\ configs' = r.table
              /\ call' = [NoCall EXCEPT !.op = "update_followup_config",
                                        !.campaign = c, !.config = config,
                                        !.result = r.ret]
        /\ ConfigUnchanged

NextConfig == ApiGetConfig \/ ApiUpdateConfig

\* the configuration of the campaigns read and updated call after call
SpecConfig == Init /\ [][NextConfig]_vars

NextStore ==
    \/ Tick
    \/ ApiSchedule
    \/ ApiGetDue
    \/ ApiCancelThread
    \/ ApiCancel
    \/ ApiMarkSent
    \/ ApiMarkFailed

\* the store component driven call by call
SpecStore == Init /\ [][NextStore]_vars

-----------------------------------------------------------------------------
(* The planner, the cancel endpoint and the instant-respond endpoint.      *)

\* plan_with_persistence -> schedule_followups
ScheduleFor(users) ==
    \E u \in users, t \in Threads, plans \in Plans :
        /\ Len(followups) + Len(plans) <= MaxRows
        /\ followups' = schedule_followups(followups, u, t, plans).table
        /\ UNCHANGED <<now, gmail_tokens, mailbox, inflight, worker, handler,
                       sends, auto_replies, instant_respond, replied, call, store, loop, configs, worker2>>

\* the planner, for a user who has connected a mailbox
Schedule == ScheduleFor({u \in Users : gmail_tokens[u].present})

\* the planner, for any user
ScheduleAnyUser == ScheduleFor(Users)

\* the planner as plan_with_persistence drives it: every scheduled_for is
\* now + timedelta(days=day), later than now
ScheduleAhead ==
    \E u \in Users, t \in Threads, plans \in Plans :
        /\ \A k \in DOMAIN plans : plans[k] > now
        /\ Len(followups) + Len(plans) <= MaxRows
        /\ followups' = schedule_followups(followups, u, t, plans).table
        /\ UNCHANGED <<now, gmail_tokens, mailbox, inflight, worker, handler,
                       sends, auto_replies, instant_respond, replied, call, store, loop, configs, worker2>>

\* POST /followups/{followup_id}/cancel
EndpointCancel ==
    \E id \in Ids :
        /\ followups' = cancel_followup(followups, id, "manual_cancel").table
        /\ UNCHANGED <<now, gmail_tokens, mailbox, inflight, worker, handler,
                       sends, auto_replies, instant_respond, replied, call, store, loop, configs, worker2>>

-----------------------------------------------------------------------------
(* The mail provider.                                                      *)

\* a recipient's message arrives in the INBOX of user u on thread t; the
\* watch publishes {emailAddress, historyId} with the mailbox's new history id
InboundUpTo(max) ==
    \E u \in Users, t \in Threads :
        /\ gmail_tokens[u].present
        /\ Len(mailbox[u]) < max
        /\ mailbox' = [mailbox EXCEPT ![u] = Append(@, [threadId |-> t, inbox |-> TRUE])]
        /\ inflight' = inflight \cup
               {[emailAddress |-> u, historyId |-> HistoryIdOf(Len(mailbox[u]) + 1),
                 form |-> "json", prior |-> NoPrior]}
        /\ UNCHANGED <<followups, now, gmail_tokens, worker, handler,
                       sends, auto_replies, instant_respond, replied, call, store, loop, configs, worker2>>

InboundMessage == InboundUpTo(MaxReplies)

\* the messages added to the mailbox of u that are no recipient's reply: the
\* provider's record (label SENT) of a follow-up sent for u, on the thread
\* of the follow-up, and a message that carries no threadId
OtherMessages(u) ==
    {[threadId |-> followups[id].thread_id, inbox |-> FALSE] :
        id \in {i \in DOMAIN followups : sends[i] > 0 /\ followups[i].user_id = u}}
    \cup {[threadId |-> NULL, inbox |-> TRUE]}

\* such a message is added to the history of the mailbox and notified
OtherRecord ==
    \E u \in Users :
        /\ gmail_tokens[u].present
        /\ Len(mailbox[u]) < MaxHistory
        /\ \E msg \in OtherMessages(u) :
              mailbox' = [mailbox EXCEPT ![u] = Append(@, msg)]
        /\ inflight' = inflight \cup
               {[emailAddress |-> u, historyId |-> HistoryIdOf(Len(mailbox[u]) + 1),
                 form |-> "json", prior |-> NoPrior]}
        /\ UNCHANGED <<followups, now, gmail_tokens, worker, handler,
                       sends, auto_replies, instant_respond, replied, call, store, loop, configs, worker2>>

InboundBurst == InboundUpTo(MaxHistory)

\* GmailService.setup_watch: the mailbox's current history id is stored
SetupWatch ==
    \E u \in Users :
        /\ gmail_tokens[u].present
        /\ gmail_tokens[u].history_id = NoValue
        /\ gmail_tokens' = [gmail_tokens EXCEPT
                               ![u].history_id = HistoryIdOf(Len(mailbox[u]))]
        /\ UNCHANGED <<followups, now, mailbox, inflight, worker, handler,
                       sends, auto_replies, instant_respond, replied, call, store, loop, configs, worker2>>

\* a wrong get_history: every record of the mailbox, whatever the start
HistorySince_all(u, start_history_id) == SetToSeq(DOMAIN mailbox[u])

\* GmailService.get_history: the records after start_history_id, as indexes
\* of the mailbox
HistorySince(u, start_history_id) ==
    SetToSeq({k \in DOMAIN mailbox[u] : HistoryIdOf(k) > start_history_id})

\* the id the provider gives the n-th message it sends for follow-up id
GmailIdFor(id, n) == id + MaxRows * (n - 1)

\* the encodings of message.data process_message may meet
PayloadForms == {"json", "base64_json", "json_value", "base64_text", "text", "binary"}

\* messages on the topic that are not a notification of a watched mailbox:
\* undecodable data, an object lacking a field, an address no user has, a
\* user without a token row, and a notification that comes base64-encoded
ForeignMessages ==
    {[emailAddress |-> NULL, historyId |-> NoValue, form |-> f, prior |-> NoPrior] :
        f \in {"json_value", "base64_text", "text", "binary"}}
    \cup {[emailAddress |-> NULL, historyId |-> HistoryIdOf(1), form |-> "json",
           prior |-> NoPrior],
          [emailAddress |-> "u1", historyId |-> NoValue, form |-> "json",
           prior |-> NoPrior],
          [emailAddress |-> "stranger", historyId |-> HistoryIdOf(1), form |-> "json",
           prior |-> NoPrior],
          [emailAddress |-> "u2", historyId |-> HistoryIdOf(1), form |-> "json",
           prior |-> NoPrior],
          [emailAddress |-> "u1", historyId |-> HistoryIdOf(1), form |-> "base64_json",
           prior |-> NoPrior]}

\* such a message is published and delivered to the subscriber
ForeignMessage ==
    \E n \in ForeignMessages :
        /\ Cardinality({m \in inflight :
                           [m EXCEPT !.prior = NoPrior] \in ForeignMessages}) < MaxForeign
        /\ inflight' = inflight \cup {n}
        /\ UNCHANGED <<followups, now, gmail_tokens, mailbox, worker, handler,
                       sends, auto_replies, instant_respond, replied, call, store, loop, configs, worker2>>

StoreStates == {"up", "http_error", "unreachable"}

\* the store starts to answer with HTTP errors, becomes unreachable, or recovers
StoreChange ==
    \E s \in StoreStates \ {store} :
        /\ store' = s
        /\ UNCHANGED <<followups, now, gmail_tokens, mailbox, inflight, worker, handler,
                       sends, auto_replies, instant_respond, replied, call, loop, configs, worker2>>

-----------------------------------------------------------------------------
(* FollowupSchedulerWorker.run_once, one action per request.               *)

WorkerUnchanged == UNCHANGED <<now, gmail_tokens, mailbox, inflight, handler,
                               auto_replies, instant_respond, replied, call, store, loop,
                               configs>>

\* the loop moves to the next row of the batch, or run_once returns stats
NextRow(w) ==
    IF w.idx < Len(w.batch)
    THEN [w EXCEPT !.pc = "attempt", !.idx = @ + 1]
    ELSE [w EXCEPT !.pc = "done"]

\* the outcomes of send_email: returned, or raised one of the three kinds
\* run_once tells apart
SendOutcomes == {"ok", "TokenExpiredError", "GmailAPIError", "Exception"}

\* a wrong set of except clauses: one message for every failure
ErrorMessage_generic(outcome) == "Unexpected error"

ErrorMessage(outcome) ==
    CASE outcome = "TokenExpiredError" -> "Token expired"
      [] outcome = "GmailAPIError" -> "Gmail API error"
      [] OTHER -> "Unexpected error"

\* a FollowupService call while the store answers st: what the call gives
\* with the store up, nothing written and False when request returns None
Answer(st, table, result) ==
    IF st = "up" THEN result ELSE [table |-> table, ret |-> FALSE]

\* run_once up to the loop over the batch: get_due_followups(limit) raises
\* when the store is unreachable and is [] when request returns None
Fetch(table, t, st, limit) ==
    LET due == IF st = "up" THEN get_due_followups(table, t, limit) ELSE <<>>
    IN CASE st = "unreachable" -> [WorkerIdle EXCEPT !.pc = "raised"]
         [] due = <<>> -> [WorkerIdle EXCEPT !.pc = "done"]
         [] OTHER -> [WorkerIdle EXCEPT !.pc = "attempt", !.batch = due, !.idx = 1]

\* a wrong lookup: a credential is found for every user
get_gmail_token_any(tokens, user_id, st) == TRUE

\* GmailService.get_gmail_token, as run_once tests it: the row of the user
\* when the request returned one, None (FALSE) otherwise
get_gmail_token(tokens, user_id, st) == st = "up" /\ tokens[user_id].present

\* stats["processed"] += 1; get_gmail_token; send_email with the given
\* outcome.  The result is [worker, table, sends].
Attempt(w0, table, tokens, snd, outcome, st) ==
    LET id == w0.batch[w0.idx]
        user_id == table[id].user_id
        w == [w0 EXCEPT !.stats.processed = @ + 1, !.attempted = Append(@, id)]
    IN CASE st = "unreachable" ->
              \* get_gmail_token raises: except Exception
              [worker |-> [w EXCEPT !.pc = "mark_failed",
                                    !.error = ErrorMessage("Exception")],
               table |-> table, sends |-> snd]
         [] ~get_gmail_token(tokens, user_id, st) ->
              \* mark_followup_failed(id, "No Gmail token available"); continue
              [worker |-> NextRow([w EXCEPT !.stats.skipped = @ + 1]),
               table |-> Answer(st, table,
                                mark_followup_failed(table, id,
                                                     "No Gmail token available")).table,
               sends |-> snd]
         [] outcome = "ok" ->
              [worker |-> [w EXCEPT !.pc = "mark_sent",
                                    !.gmail_id = GmailIdFor(id, snd[id] + 1),
                                    !.sent_ok = @ \cup {id}],
               table |-> table,
               sends |-> [snd EXCEPT ![id] = @ + 1]]
         [] OTHER ->
              [worker |-> [w EXCEPT !.pc = "mark_failed",
                                    !.error = ErrorMessage(outcome)],
               table |-> table, sends |-> snd]

\* mark_followup_sent(followup_id, result["gmail_id"]); stats["sent"] += 1.
\* The value returned is not looked at; an exception of the request is
\* caught by `except Exception`.  The result is [worker, table].
MarkSent(w, table, t, st) ==
    IF st = "unreachable"
    THEN [worker |-> [w EXCEPT !.pc = "mark_failed", !.gmail_id = NoValue,
                               !.error = ErrorMessage("Exception")],
          table |-> table]
    ELSE [worker |-> NextRow([w EXCEPT !.stats.sent = @ + 1, !.gmail_id = NoValue]),
          table |-> Answer(st, table,
                           mark_followup_sent(table, w.batch[w.idx],
                                              w.gmail_id, t)).table]

\* except ...: mark_followup_failed(followup_id, message); stats["failed"] += 1.
\* An exception of the request leaves the except clause and run_once.
MarkFailed(w, table, st) ==
    IF st = "unreachable"
    THEN [worker |-> [w EXCEPT !.pc = "raised", !.error = NULL], table |-> table]
    ELSE [worker |-> NextRow([w EXCEPT !.stats.failed = @ + 1, !.error = NULL]),
          table |-> Answer(st, table,
                           mark_followup_failed(table, w.batch[w.idx], w.error)).table]

\* due_followups = get_due_followups(limit=50); return stats when empty
W_Fetch ==
    /\ \/ loop.pc = "none" /\ worker.pc \in {"idle", "done", "raised"}  \* called directly
       \/ loop.pc = "run_once" /\ worker.pc = "idle"            \* called by run_loop
    /\ worker' = Fetch(followups, now, store, BatchLimit)
    /\ UNCHANGED <<followups, sends, worker2>>
    /\ WorkerUnchanged

\* run_once with the batch limit scaled down to the table of the model
W_FetchSmall ==
    /\ loop.pc = "none"
    /\ worker.pc \in {"idle", "done", "raised"}
    /\ worker' = Fetch(followups, now, store, SmallBatch)
    /\ UNCHANGED <<followups, sends, worker2>>
    /\ WorkerUnchanged

\* one row of the batch up to the answer of send_email
W_Attempt ==
    /\ worker.pc = "attempt"
    /\ \E outcome \in SendOutcomes :
          LET r == Attempt(worker, followups, gmail_tokens, sends, outcome, store)
          IN /\ outcome = "ok" => sends[worker.batch[worker.idx]] < MaxSends
             /\ worker' = r.worker
             /\ followups' = r.table
             /\ sends' = r.sends
    /\ UNCHANGED worker2
    /\ WorkerUnchanged

W_MarkSent ==
    /\ worker.pc = "mark_sent"
    /\ LET r == MarkSent(worker, followups, now, store)
       IN /\ worker' = r.worker
          /\ followups' = r.table
    /\ UNCHANGED <<sends, worker2>>
    /\ WorkerUnchanged

\* a wrong handler of a failed send: the exception ends the batch
W_MarkFailed_abort ==
    /\ worker.pc = "mark_failed"
    /\ LET id == worker.batch[worker.idx]
       IN followups' = mark_followup_failed(followups, id, worker.error).table
    /\ worker' = [worker EXCEPT !.pc = "done", !.stats.failed = @ + 1, !.error = NULL]
    /\ UNCHANGED <<sends, worker2>>
    /\ WorkerUnchanged

W_MarkFailed ==
    /\ worker.pc = "mark_failed"
    /\ LET r == MarkFailed(worker, followups, store)
       IN /\ worker' = r.worker
          /\ followups' = r.table
    /\ UNCHANGED <<sends, worker2>>
    /\ WorkerUnchanged

\* run_once of the second instance, called directly
W2_Fetch ==
    /\ worker2.pc \in {"idle", "done", "raised"}
    /\ worker2' = Fetch(followups, now, store, BatchLimit)
    /\ UNCHANGED <<followups, sends, worker>>
    /\ WorkerUnchanged

W2_Attempt ==
    /\ worker2.pc = "attempt"
    /\ \E outcome \in SendOutcomes :
          LET r == Attempt(worker2, followups, gmail_tokens, sends, outcome, store)
          IN /\ outcome = "ok" => sends[worker2.batch[worker2.idx]] < MaxSends
             /\ worker2' = r.worker
             /\ followups' = r.table
             /\ sends' = r.sends
    /\ UNCHANGED worker
    /\ WorkerUnchanged

W2_MarkSent ==
    /\ worker2.pc = "mark_sent"
    /\ LET r == MarkSent(worker2, followups, now, store)
       IN /\ worker2' = r.worker
          /\ followups' = r.table
    /\ UNCHANGED <<sends, worker>>
    /\ WorkerUnchanged

W2_MarkFailed ==
    /\ worker2.pc = "mark_failed"
    /\ LET r == MarkFailed(worker2, followups, store)
       IN /\ worker2' = r.worker
          /\ followups' = r.table
    /\ UNCHANGED <<sends, worker>>
    /\ WorkerUnchanged

-----------------------------------------------------------------------------
(* FollowupSchedulerWorker.run_loop and stop.  stopped, ticks and sleeps    *)
(* record that stop() was called, and the calls of run_once begun and the   *)
(* one-second sleeps ended since.                                           *)

LoopIdle == [NoLoop EXCEPT !.pc = "idle"]

LoopUnchanged == UNCHANGED <<followups, now, gmail_tokens, mailbox, inflight, handler,
                             sends, auto_replies, instant_respond, replied, call, store,
                             configs, worker2>>

\* run_loop(interval_seconds): self.running = True
L_Start ==
    /\ loop.pc = "idle"
    /\ \E interval_seconds \in 0..MaxInterval :
          loop' = [loop EXCEPT !.pc = "while", !.running = TRUE,
                               !.interval = interval_seconds]
    /\ UNCHANGED worker
    /\ LoopUnchanged

\* while self.running:
L_While ==
    /\ loop.pc = "while"
    /\ loop' = [loop EXCEPT !.pc = IF loop.running THEN "call" ELSE "returned"]
    /\ UNCHANGED worker
    /\ LoopUnchanged

\* stats = self.run_once(): the call begins
L_Call ==
    /\ loop.pc = "call"
    /\ loop' = [loop EXCEPT !.pc = "run_once",
                            !.ticks = IF loop.stopped THEN @ + 1 ELSE @]
    /\ worker' = WorkerIdle
    /\ LoopUnchanged

\* run_once has returned its stats; for _ in range(interval_seconds):
L_Return ==
    /\ loop.pc = "run_once"
    /\ worker.pc = "done"
    /\ loop' = [loop EXCEPT !.pc = "for", !.i = 0]
    /\ UNCHANGED worker
    /\ LoopUnchanged

\* a wrong loop: the exception of run_once is not caught and ends run_loop
L_Except_ends ==
    /\ loop.pc = "run_once"
    /\ worker.pc = "raised"
    /\ loop' = [loop EXCEPT !.pc = "returned"]
    /\ UNCHANGED worker
    /\ LoopUnchanged

\* run_once has raised; except Exception: logger.exception; then the for loop
L_Except ==
    /\ loop.pc = "run_once"
    /\ worker.pc = "raised"
    /\ loop' = [loop EXCEPT !.pc = "for", !.i = 0]
    /\ UNCHANGED worker
    /\ LoopUnchanged

\* a wrong sleep loop: the flag is not looked at between the sleeps
L_For_nobreak ==
    /\ loop.pc = "for"
    /\ loop' = [loop EXCEPT !.pc = IF loop.i < loop.interval THEN "sleep" ELSE "while"]
    /\ UNCHANGED worker
    /\ LoopUnchanged

\* the next round of the for loop: if not self.running: break
L_For ==
    /\ loop.pc = "for"
    /\ loop' = [loop EXCEPT !.pc = IF loop.i < loop.interval /\ loop.running
                                   THEN "sleep" ELSE "while"]
    /\ UNCHANGED worker
    /\ LoopUnchanged

\* time.sleep(1) returns
L_Sleep ==
    /\ loop.pc = "sleep"
    /\ loop' = [loop EXCEPT !.pc = "for", !.i = @ + 1,
                            !.sleeps = IF loop.stopped THEN @ + 1 ELSE @]
    /\ UNCHANGED worker
    /\ LoopUnchanged

\* stop(), called from another thread while run_loop is executing
Stop ==
    /\ loop.pc \notin {"none", "idle", "returned"}
    /\ ~loop.stopped
    /\ loop' = [loop EXCEPT !.running = FALSE, !.stopped = TRUE]
    /\ UNCHANGED worker
    /\ LoopUnchanged

LoopStep == L_While \/ L_Call \/ L_Return \/ L_For \/ L_Sleep

-----------------------------------------------------------------------------
(* ReplyDetectorWorker.process_message and the subscriber callback, one     *)
(* action per request.  process_message returns True or False (pc           *)
(* "returned", ret); the callback then acks (the notification leaves        *)
(* inflight) or nacks (it stays and is delivered again).                    *)

HandlerUnchanged == UNCHANGED <<now, worker, sends, instant_respond, call, store, loop, configs, worker2>>

\* PATCH gmail_tokens?user_id=eq.U {history_id}
PatchHistoryId(tokens, user_id, history_id) ==
    [tokens EXCEPT ![user_id].history_id = history_id]

\* the Pub/Sub message the callback of h was called with
Notification(h) == handler[h].msg

\* `return value` of process_message
Returned(rec, value) == [rec EXCEPT !.pc = "returned", !.ret = value]

\* message.data -> data.  json.loads of the raw text; on JSONDecodeError
\* json.loads(base64.b64decode(padded).decode()).  The result is the kind
\* of value or of exception the two attempts end with.
Decode(form) ==
    CASE form = "json" -> "object"
      [] form = "base64_json" -> "object"
      [] form = "json_value" -> "value"               \* JSON, not an object
      [] form = "base64_text" -> "JSONDecodeError"    \* base64 of text that is not JSON
      [] form = "text" -> "Error"                     \* binascii.Error / UnicodeDecodeError
      [] OTHER -> "Error"                             \* bytes that are not UTF-8

\* the state of the tables, kept with a nacked notification
Snapshot == <<followups, mailbox, gmail_tokens>>

\* a wrong test: a missing history_id is passed on to get_history
NoStoredHistory_never(stored_history_id) == FALSE

\* if not stored_history_id
NoStoredHistory(stored_history_id) == stored_history_id = NoValue

\* decode; users?email=eq.E; get_gmail_token(user_id); stored_history_id
H_Receive(h) ==
    /\ handler[h].pc = "idle"
    /\ \E n \in inflight :
          LET rec == [HandlerIdle EXCEPT !.msg = n, !.user = n.emailAddress,
                                         !.history_id = n.historyId,
                                         !.prior = n.prior]
              data == Decode(n.form)
          IN handler' = [handler EXCEPT ![h] =
                 CASE data = "JSONDecodeError" -> Returned(rec, TRUE)
                   [] data = "Error" -> Returned(rec, FALSE)
                   [] data = "value" -> Returned(rec, FALSE)   \* data.get: AttributeError
                   [] n.emailAddress = NULL \/ n.historyId = NoValue ->
                          Returned(rec, TRUE)                  \* invalid message format
                   [] store = "unreachable" -> Returned(rec, FALSE)
                   [] store = "http_error" -> Returned(rec, TRUE)   \* `not users`
                   [] n.emailAddress \notin Users -> Returned(rec, TRUE)
                   [] ~gmail_tokens[n.emailAddress].present -> Returned(rec, TRUE)
                   [] OTHER ->
                          [rec EXCEPT
                              !.pc = IF NoStoredHistory(
                                            gmail_tokens[n.emailAddress].history_id)
                                     THEN "baseline" ELSE "history",
                              !.stored = gmail_tokens[n.emailAddress].history_id]]
    /\ UNCHANGED <<followups, gmail_tokens, mailbox, inflight, auto_replies, replied>>
    /\ HandlerUnchanged

\* a wrong write: history_id is stored although the request raises
WriteHistoryId_always(h) ==
    /\ gmail_tokens' = PatchHistoryId(gmail_tokens, handler[h].user,
                                      handler[h].history_id)
    /\ handler' = [handler EXCEPT ![h] =
           Returned([@ EXCEPT !.diffed = (handler[h].pc = "process")],
                    store # "unreachable")]

\* the PATCH of gmail_tokens.history_id and the return that follows it: a
\* None result is not looked at, an exception ends in `return False`
WriteHistoryId(h) ==
    /\ gmail_tokens' = IF store = "up"
                       THEN PatchHistoryId(gmail_tokens, handler[h].user,
                                           handler[h].history_id)
                       ELSE gmail_tokens
    /\ handler' = [handler EXCEPT ![h] =
           Returned([@ EXCEPT !.diffed = (handler[h].pc = "process")],
                    store # "unreachable")]

\* if not stored_history_id: PATCH history_id; return True
H_Baseline(h) ==
    /\ handler[h].pc = "baseline"
    /\ WriteHistoryId(h)
    /\ UNCHANGED <<followups, mailbox, inflight, auto_replies, replied>>
    /\ HandlerUnchanged

\* the answers of the provider to users/me/history: the records, 404, or
\* another error status with the words of its body
HistoryResponses ==
    {[status |-> "200", body |-> {}],
     [status |-> "404", body |-> {}],
     [status |-> "400", body |-> {"historyId"}],
     [status |-> "400", body |-> {"404"}],
     [status |-> "500", body |-> {}]}

\* str(e) of GmailAPIError(f"Gmail history fetch failed ({e.code}): {error_body}")
ErrorText(response) == {response.status} \cup response.body

\* str.lower()
Lower(text) == {IF w = "historyId" THEN "historyid" ELSE w : w \in text}

\* "404" in str(e) or "historyId" in str(e).lower()
HistoryIdTooOld(text) == "404" \in text \/ "historyId" \in Lower(text)

\* changes = get_history(user_id, stored_history_id, ["messageAdded"]) when
\* the provider answers with response
H_GetHistoryWith(h, response) ==
    /\ handler[h].pc = "history"
    /\ handler' = [handler EXCEPT ![h] =
           CASE store # "up" -> Returned(@, FALSE)    \* get_valid_token raises
             [] response.status = "200" ->
                    [@ EXCEPT !.pc = "process", !.pos = 1,
                              !.changes = HistorySince(handler[h].user, handler[h].stored)]
             [] response.status = "404" ->
                    [@ EXCEPT !.pc = "process", !.pos = 1, !.changes = <<>>,
                              !.resync = TRUE]
             [] HistoryIdTooOld(ErrorText(response)) ->
                    [@ EXCEPT !.pc = "resync", !.resync = TRUE]
             [] OTHER -> Returned(@, FALSE)]           \* raise
    /\ UNCHANGED <<followups, gmail_tokens, mailbox, inflight, auto_replies, replied>>
    /\ HandlerUnchanged

H_GetHistory(h) == \E response \in HistoryResponses : H_GetHistoryWith(h, response)

\* History ID is too old: PATCH history_id; return True
H_Resync(h) ==
    /\ handler[h].pc = "resync"
    /\ WriteHistoryId(h)
    /\ UNCHANGED <<followups, mailbox, inflight, auto_replies, replied>>
    /\ HandlerUnchanged

\* a wrong check: no thread is found to have instant respond enabled
check_instant_respond_thread_never(user_id, thread_id) == FALSE

\* _check_instant_respond_thread: a sent email of the thread, or its
\* campaign, has instant_respond_enabled; any failure of the store gives None
check_instant_respond_thread(user_id, thread_id) ==
    store = "up" /\ <<user_id, thread_id>> \in instant_respond

\* a wrong test: the labels of the message are not looked at
IsInboxMessage_anylabel(msg) == msg.threadId # NULL

\* if thread_id and "INBOX" in label_ids
IsInboxMessage(msg) == msg.threadId # NULL /\ msg.inbox

\* one message of the diff: skipped unless it is in INBOX; then either the
\* automatic reply, or the select of cancel_followups_for_thread
H_Message(h) ==
    /\ handler[h].pc = "process"
    /\ handler[h].pos <= Len(handler[h].changes)
    /\ LET msg == mailbox[handler[h].user][handler[h].changes[handler[h].pos]]
           thread_id == msg.threadId
       IN IF IsInboxMessage(msg)
          THEN IF check_instant_respond_thread(handler[h].user, thread_id)
               THEN \* _send_instant_response: get_message, generate, send_email;
                    \* an exception of any of them is logged and dropped
                    /\ auto_replies[handler[h].user][handler[h].changes[handler[h].pos]]
                           < MaxAutoReplies
                    /\ \E sent \in BOOLEAN :
                          auto_replies' =
                              IF sent
                              THEN [auto_replies EXCEPT
                                       ![handler[h].user][handler[h].changes[handler[h].pos]]
                                           = @ + 1]
                              ELSE auto_replies
                    /\ handler' = [handler EXCEPT ![h].pos = @ + 1]
               ELSE /\ UNCHANGED auto_replies
                    /\ CASE store = "unreachable" ->
                              handler' = [handler EXCEPT ![h] = Returned(@, FALSE)]
                         [] store = "http_error" ->
                              \* pending is None: return 0
                              handler' = [handler EXCEPT
                                  ![h].seen = @ \cup {thread_id},
                                  ![h].clean = FALSE,
                                  ![h].pos = @ + 1]
                         [] OTHER ->
                              LET pending == SelectPendingForThread(followups, thread_id)
                              IN handler' = [handler EXCEPT
                                     ![h].seen = @ \cup {thread_id},
                                     ![h].thread = thread_id,
                                     ![h].pending = pending,
                                     ![h].ppos = 1,
                                     ![h].covered = @ \cup
                                         {id \in DOMAIN followups :
                                             /\ followups[id].thread_id = thread_id
                                             /\ followups[id].user_id = handler[h].user},
                                     ![h].pc = IF pending = <<>> THEN "process" ELSE "patch",
                                     ![h].pos = IF pending = <<>> THEN @ + 1 ELSE @]
          ELSE /\ handler' = [handler EXCEPT ![h].pos = @ + 1]
               /\ UNCHANGED auto_replies
    /\ UNCHANGED <<followups, gmail_tokens, mailbox, inflight, replied>>
    /\ HandlerUnchanged

\* cancel_followups_for_thread: the PATCH of the next selected row
H_Patch(h) ==
    /\ handler[h].pc = "patch"
    /\ LET last == handler[h].ppos = Len(handler[h].pending)
           next == [handler[h] EXCEPT
                       !.ppos = @ + 1,
                       !.pc = IF last THEN "process" ELSE "patch",
                       !.pos = IF last THEN @ + 1 ELSE @]
       IN CASE store = "unreachable" ->
                 /\ handler' = [handler EXCEPT ![h] = Returned(@, FALSE)]
                 /\ UNCHANGED followups
            [] store = "http_error" ->
                 \* result is None: the row is not counted
                 /\ handler' = [handler EXCEPT ![h] = [next EXCEPT !.clean = FALSE]]
                 /\ UNCHANGED followups
            [] OTHER ->
                 /\ followups' = PatchCancelled(followups,
                                                handler[h].pending[handler[h].ppos],
                                                "reply_detected").table
                 /\ handler' = [handler EXCEPT ![h] = next]
    /\ UNCHANGED <<gmail_tokens, mailbox, inflight, auto_replies, replied>>
    /\ HandlerUnchanged

\* Update stored history_id; return True
H_Advance(h) ==
    /\ handler[h].pc = "process"
    /\ handler[h].pos > Len(handler[h].changes)
    /\ WriteHistoryId(h)
    /\ UNCHANGED <<followups, mailbox, inflight, auto_replies, replied>>
    /\ HandlerUnchanged

\* a wrong callback: the message is acked whatever process_message returned
H_Callback_ack(h) ==
    /\ handler[h].pc = "returned"
    /\ inflight' = inflight \ {Notification(h)}
    /\ replied' = replied \cup handler[h].covered
    /\ handler' = [handler EXCEPT ![h] = HandlerIdle]
    /\ UNCHANGED <<followups, gmail_tokens, mailbox, auto_replies>>
    /\ HandlerUnchanged

\* callback: if process_message(message): message.ack() else: message.nack().
\* A nacked notification whose pass had finished a cancellation that the
\* store answered is kept with the state of the tables at this moment.
H_Callback(h) ==
    /\ handler[h].pc = "returned"
    /\ IF handler[h].ret
       THEN /\ inflight' = inflight \ {Notification(h)}
            /\ replied' = replied \cup handler[h].covered
       ELSE /\ inflight' =
                  IF Notification(h) \in inflight
                        /\ handler[h].diffed /\ handler[h].clean
                        /\ handler[h].seen # {}
                  THEN (inflight \ {Notification(h)})
                           \cup {[Notification(h) EXCEPT !.prior = Snapshot]}
                  ELSE inflight
            /\ UNCHANGED replied
    /\ handler' = [handler EXCEPT ![h] = HandlerIdle]
    /\ UNCHANGED <<followups, gmail_tokens, mailbox, auto_replies>>
    /\ HandlerUnchanged

\* PATCH /campaigns/{campaign_id}/instant-respond, for the campaign of
\* user u's thread t
UpdateInstantRespond ==
    \E u \in Users, t \in Threads :
        /\ gmail_tokens[u].present
        /\ <<u, t>> \notin instant_respond
        /\ instant_respond' = instant_respond \cup {<<u, t>>}
        /\ UNCHANGED <<followups, now, gmail_tokens, mailbox, inflight, worker,
                       handler, sends, auto_replies, replied, call, store, loop, configs, worker2>>

-----------------------------------------------------------------------------
HandlerStep(h) ==
    \/ H_Receive(h)
    \/ H_Baseline(h)
    \/ H_GetHistory(h)
    \/ H_Resync(h)
    \/ H_Message(h)
    \/ H_Patch(h)
    \/ H_Advance(h)
    \/ H_Callback(h)

Next ==
    \/ Tick
    \/ Schedule
    \/ EndpointCancel
    \/ InboundMessage
    \/ SetupWatch
    \/ W_Fetch
    \/ W_Attempt
    \/ W_MarkSent
    \/ W_MarkFailed
    \/ \E h \in OneHandler : HandlerStep(h)

\* the delivery worker, a reply handler, the planner, the cancel endpoint
\* and the provider running concurrently
Spec == Init /\ [][Next]_vars

NextWatermark ==
    \/ Schedule
    \/ InboundBurst
    \/ SetupWatch
    \/ \E h \in Handlers : HandlerStep(h)

\* the subscriber running two callbacks at once over a burst of notifications
SpecWatermark == Init /\ [][NextWatermark]_vars

NextReply ==
    \/ Tick
    \/ Schedule
    \/ EndpointCancel
    \/ InboundBurst
    \/ SetupWatch
    \/ ApiGetDue
    \/ \E h \in OneHandler : HandlerStep(h)

\* reply handling while no run_once is in progress
SpecReply == Init /\ [][NextReply]_vars

NextFaults ==
    \/ Schedule
    \/ InboundMessage
    \/ SetupWatch
    \/ ForeignMessage
    \/ StoreChange
    \/ \E h \in OneHandler : HandlerStep(h)

\* a reply handler over a failing store and a topic that carries other messages
SpecFaults == Init /\ [][NextFaults]_vars

\* no callback is running
Quiet == \A h \in Handlers : handler[h].pc = "idle"

ScheduleBetween == Quiet /\ Schedule

InboundBetween == Quiet /\ InboundMessage

NextRedelivery ==
    \/ ScheduleBetween
    \/ InboundBetween
    \/ SetupWatch
    \/ StoreChange
    \/ \E h \in OneHandler : HandlerStep(h)

\* deliveries and redeliveries handled one after the other, the planner and
\* the provider acting between them
SpecRedelivery == Init /\ [][NextRedelivery]_vars

NextHandled ==
    \/ ScheduleBetween
    \/ InboundBurst
    \/ SetupWatch
    \/ UpdateInstantRespond
    \/ \E h \in OneHandler : HandlerStep(h)

\* a reply handler over a store that answers, threads with and without
\* instant respond, the planner acting between the processings
SpecHandled == Init /\ [][NextHandled]_vars

\* the answers of the provider after which process_message returns True
HistoryResponsesAcked ==
    {response \in HistoryResponses :
        response.status \in {"200", "404"} \/ HistoryIdTooOld(ErrorText(response))}

H_GetHistoryAcked(h) ==
    \E response \in HistoryResponsesAcked : H_GetHistoryWith(h, response)

\* process_message and the callback when nothing makes it return False
HandlerStepAcked(h) ==
    \/ H_Receive(h)
    \/ H_Baseline(h)
    \/ H_GetHistoryAcked(h)
    \/ H_Resync(h)
    \/ H_Message(h)
    \/ H_Patch(h)
    \/ H_Advance(h)
    \/ H_Callback(h)

NextOnce ==
    \/ ScheduleBetween
    \/ InboundBurst
    \/ SetupWatch
    \/ UpdateInstantRespond
    \/ \E h \in OneHandler : HandlerStepAcked(h)

\* one reply handler, every notification acked at its first delivery: the
\* store answers and the provider gives no error that is raised
SpecOnce == Init /\ [][NextOnce]_vars

ScheduleAnyUserBetween == Quiet /\ ScheduleAnyUser

NextIsolation ==
    \/ ScheduleAnyUserBetween
    \/ InboundBetween
    \/ SetupWatch
    \/ \E h \in OneHandler : HandlerStep(h)

\* a reply handler over a table that holds rows of several users, the
\* planner acting between the processings
SpecIsolation == Init /\ [][NextIsolation]_vars

NextInstant ==
    \/ Schedule
    \/ InboundMessage
    \/ SetupWatch
    \/ UpdateInstantRespond
    \/ StoreChange
    \/ \E h \in OneHandler : HandlerStep(h)

\* a reply handler over threads that may have instant respond enabled, the
\* store failing at times so that notifications are delivered again
SpecInstant == Init /\ [][NextInstant]_vars

\* _generate_followup_sequence: scheduled_for = now + timedelta(days=day) for
\* the first max_followups of the three follow-up types
DefaultPlan(t) ==
    Limit(<<t + followup_1_days, t + followup_2_days, t + followup_3_days>>,
          max_followups)

\* plan_with_persistence for one sent email of user u1 on thread T1, with
\* the default configuration
PlanDefault ==
    /\ followups = <<>>
    /\ followups' = schedule_followups(followups, "u1", "T1", DefaultPlan(now)).table
    /\ UNCHANGED <<now, gmail_tokens, mailbox, inflight, worker, handler,
                   sends, auto_replies, instant_respond, replied, call, store, loop, configs, worker2>>

\* a day passes
TickDay ==
    /\ now < MaxDay
    /\ now' = now + 1
    /\ UNCHANGED <<followups, gmail_tokens, mailbox, inflight, worker, handler,
                   sends, auto_replies, instant_respond, replied, call, store, loop, configs, worker2>>

\* the state after construction, the provider counting sends for the rows
\* of one default plan
InitCadence == InitWith([i \in 1..max_followups |-> 0], NoLoop)

NextCadence ==
    \/ TickDay
    \/ PlanDefault
    \/ W_Fetch
    \/ W_Attempt
    \/ W_MarkSent
    \/ W_MarkFailed

\* one thread planned with the default cadence and delivered over the days
SpecCadence == InitCadence /\ [][NextCadence]_vars

InitLoop == InitWith([i \in Ids |-> 0], LoopIdle)

WorkerStep == W_Fetch \/ W_Attempt \/ W_MarkSent \/ W_MarkFailed

NextLoop ==
    \/ Tick
    \/ ScheduleAnyUser
    \/ L_Start
    \/ Stop
    \/ LoopStep
    \/ WorkerStep

\* run_loop driving run_once, stop() called at any moment of it
SpecLoop == InitLoop /\ [][NextLoop]_vars

\* the thread of run_loop keeps running: every step of the loop and of
\* run_once that can be taken is taken, and a sleep returns
SpecLoopFair == SpecLoop /\ WF_vars(LoopStep) /\ WF_vars(WorkerStep)

WorkerBetween == Quiet /\ WorkerStep

OtherRecordBetween == Quiet /\ OtherRecord

InstantRespondBetween == Quiet /\ UpdateInstantRespond

NextOutbound ==
    \/ ScheduleBetween
    \/ WorkerBetween
    \/ OtherRecordBetween
    \/ InboundBetween
    \/ SetupWatch
    \/ InstantRespondBetween
    \/ \E h \in OneHandler : HandlerStep(h)

\* the delivery worker sending follow-ups, the provider recording them in
\* the history of the mailbox next to the recipients' replies, and a reply
\* handler diffing that history; the worker, the planner and the provider
\* act between the processings
SpecOutbound == Init /\ [][NextOutbound]_vars

WorkerStepSmall == W_FetchSmall \/ W_Attempt \/ W_MarkSent \/ W_MarkFailed

NextBacklog ==
    \/ Tick
    \/ ScheduleAhead
    \/ WorkerStepSmall

\* the delivery worker with a batch smaller than the table, its ticks
\* recurring: a step of run_once that can be taken is taken, and run_once is
\* called again after it returned
SpecBacklog == Init /\ [][NextBacklog]_vars /\ WF_vars(WorkerStepSmall)

NextDeliveryFaults ==
    \/ Tick
    \/ ScheduleAnyUser
    \/ StoreChange
    \/ WorkerStep

\* one delivery worker over a store that fails at times
SpecDeliveryFaults == Init /\ [][NextDeliveryFaults]_vars

Worker2Step == W2_Fetch \/ W2_Attempt \/ W2_MarkSent \/ W2_MarkFailed

NextTwoWorkers ==
    \/ Tick
    \/ Schedule
    \/ WorkerStep
    \/ Worker2Step

\* two FollowupSchedulerWorker instances running run_once over one table
SpecTwoWorkers == Init /\ [][NextTwoWorkers]_vars

LoopStepFaults == LoopStep \/ L_Except

\* SmallBatch rows are planned and fall due before run_loop is started; only
\* run_once asks the store, so the store changes while it runs
BetweenTicks == loop.pc = "idle"

TickBetweenTicks == BetweenTicks /\ Tick

ScheduleBetweenTicks == BetweenTicks /\ Schedule /\ Len(followups') <= SmallBatch

\* the store becomes unreachable or recovers while run_once is running
StoreChangeInTick ==
    /\ loop.pc = "run_once"
    /\ \E s \in {"up", "unreachable"} \ {store} : store' = s
    /\ UNCHANGED <<followups, now, gmail_tokens, mailbox, inflight, worker, handler,
                   sends, auto_replies, instant_respond, replied, call, loop, configs, worker2>>

NextLoopFaults ==
    \/ TickBetweenTicks
    \/ ScheduleBetweenTicks
    \/ StoreChangeInTick
    \/ L_Start
    \/ Stop
    \/ LoopStepFaults
    \/ WorkerStep

\* run_loop over a store that fails at times, its thread kept running
SpecLoopFaults ==
    /\ InitLoop
    /\ [][NextLoopFaults]_vars
    /\ WF_vars(LoopStepFaults)
    /\ WF_vars(WorkerStep)

NextDelivery ==
    \/ Tick
    \/ ScheduleAnyUser
    \/ W_Fetch
    \/ W_Attempt
    \/ W_MarkSent
    \/ W_MarkFailed

\* the delivery worker while nothing else writes the table
SpecDelivery == Init /\ [][NextDelivery]_vars

-----------------------------------------------------------------------------
(* Properties *)

\* C1: terminal monotonicity -- in every interleaving of run_once,
\* process_message and the cancel endpoint, no step changes the status of a
\* row whose status is sent, cancelled or skipped.
C1_TerminalMonotonicity ==
    [][\A id \in DOMAIN followups :
          followups[id].status \in Terminal
              => followups'[id].status = followups[id].status]_vars

\* C2: once a reply on a thread has been acknowledged on the cancel path
\* (instant respond not enabled), the delivery worker sends no email for a
\* follow-up that was on that thread, also when its batch was fetched before.
C2_NoSendAfterReply ==
    [][\A id \in replied :
          <<followups[id].user_id, followups[id].thread_id>> \notin instant_respond
              => sends'[id] = sends[id]]_vars

\* C3: mark_followup_sent and mark_followup_failed applied to a row that is
\* not pending leave the table as it is and return False.
C3_MarkIsCompareAndSet ==
    [][(/\ ApiMarkSent \/ ApiMarkFailed
        /\ call'.id \in DOMAIN followups
        /\ followups[call'.id].status # "pending")
          => (followups' = followups /\ call'.ok = FALSE)]_vars

\* C4: watermark monotonicity -- when a processing that is not a resync
\* (the provider did not report the stored value stale) writes the user's
\* history_id, the value stored after it is at least the value that was
\* stored when the processing began.
C4_WatermarkMonotonic ==
    [][\A h \in Handlers :
          (H_Baseline(h) \/ (H_Advance(h) /\ ~handler[h].resync))
              => gmail_tokens'[handler[h].user].history_id >= handler[h].stored]_vars

\* C5: cancel_followup returns True exactly when it changed a pending row to
\* cancelled; on a row that is sent, cancelled or skipped, or on an id that
\* does not exist, it returns False and changes nothing.
C5_IdempotentCancel ==
    [][ApiCancel
          => LET id == call'.id
                 was_pending == id \in DOMAIN followups
                                /\ followups[id].status = "pending"
             IN IF was_pending
                THEN /\ call'.ok = TRUE
                     /\ followups' = [followups EXCEPT
                            ![id].status = "cancelled",
                            ![id].status_reason = call'.reason]
                ELSE /\ call'.ok = FALSE
                     /\ followups' = followups]_vars

\* C6: cancel_followups_for_thread sets every pending row of the thread to
\* cancelled with the given reason, returns their number, leaves every other
\* row as it was and leaves no pending row on the thread, so that a second
\* call returns 0 and changes nothing.
C6_CancellationBreadth ==
    [][ApiCancelThread
          => LET t == call'.thread
                 P == {i \in DOMAIN followups : /\ followups[i].thread_id = t
                                                /\ followups[i].status = "pending"}
             IN /\ call'.count = Cardinality(P)
                /\ DOMAIN followups' = DOMAIN followups
                /\ \A i \in P : followups'[i] =
                       [followups[i] EXCEPT !.status = "cancelled",
                                            !.status_reason = call'.reason]
                /\ \A i \in DOMAIN followups \ P : followups'[i] = followups[i]
                /\ \A i \in DOMAIN followups' :
                       followups'[i].thread_id = t => followups'[i].status # "pending"]_vars

\* two rows of one thread were pending, both are cancelled and 2 was returned
C6_Witness ==
    /\ call.op = "cancel_followups_for_thread"
    /\ call.count = 2
    /\ Len(followups) = 2
    /\ \A i \in DOMAIN followups :
          /\ followups[i].thread_id = call.thread
          /\ followups[i].status = "cancelled"
          /\ followups[i].status_reason = call.reason
    /\ followups[1].scheduled_for > now

\* C7: no step puts a row that is not pending back to pending, no step
\* removes a row, and rows are created only by the planner's
\* schedule_followups, with status pending.
C7_NoReentry ==
    [][/\ \A id \in DOMAIN followups :
             /\ id \in DOMAIN followups'
             /\ followups[id].status # "pending" => followups'[id].status # "pending"
       /\ \A id \in DOMAIN followups' \ DOMAIN followups :
             /\ Schedule
             /\ followups'[id].status = "pending"]_vars

\* a row that was marked sent by the worker and then patched by the reply
\* handler's cancel loop
C7_Witness ==
    \E id \in DOMAIN followups :
        /\ followups[id].status = "cancelled"
        /\ followups[id].status_reason = "reply_detected"
        /\ followups[id].sent_at # NoValue

\* C8: get_due_followups(limit) returns pending rows due at the current
\* time only, at most limit of them and as many as are due up to limit,
\* without repetition, in non-decreasing scheduled_for order, and no due row
\* it leaves out is scheduled before one it returns.
C8_DueOrdering ==
    [][ApiGetDue
          => LET rows == call'.rows
                 due == {i \in DOMAIN followups : /\ followups[i].status = "pending"
                                                  /\ followups[i].scheduled_for <= now}
                 returned == {rows[k] : k \in DOMAIN rows}
             IN /\ returned \subseteq due
                /\ Len(rows) <= call'.limit
                /\ Len(rows) = (IF Cardinality(due) < call'.limit
                                THEN Cardinality(due) ELSE call'.limit)
                /\ Cardinality(returned) = Len(rows)
                /\ \A j, k \in DOMAIN rows :
                       j < k => followups[rows[j]].scheduled_for
                                    <= followups[rows[k]].scheduled_for
                /\ \A i \in due \ returned : \A k \in DOMAIN rows :
                       followups[rows[k]].scheduled_for
                           <= followups[i].scheduled_for]_vars

\* two rows are due, limit is 1, and the row returned is the second row of
\* the table, which is due earlier than the first
C8_Witness ==
    /\ call.op = "get_due_followups"
    /\ call.limit = 1
    /\ call.rows = <<2>>
    /\ Len(followups) = 2
    /\ \A i \in DOMAIN followups :
          followups[i].status = "pending" /\ followups[i].scheduled_for <= now
    /\ followups[2].scheduled_for < followups[1].scheduled_for

\* the cancel_followups_for_thread call of handler h has returned
CancelReturned(h) == handler[h].thread # NULL /\ handler[h].pc # "patch"

C9_Handled ==
    \A h \in Handlers :
        CancelReturned(h)
            => /\ \A k \in DOMAIN handler[h].pending :
                     /\ followups[handler[h].pending[k]].status = "cancelled"
                     /\ followups[handler[h].pending[k]].status_reason = "reply_detected"
               /\ \A id \in handler[h].covered :
                     followups[id].thread_id = handler[h].thread
                         => followups[id].status # "pending"

\* C9: when process_message has handled an inbound INBOX message on a
\* thread without instant respond, every row that was on the thread is no
\* longer pending, the rows that were pending (due or not) are cancelled with
\* reason reply_detected, and no later get_due_followups returns a row that
\* the reply cancelled.
C9_ReplyCancelsThread ==
    [][/\ C9_Handled'
       /\ ApiGetDue => \A k \in DOMAIN call'.rows :
                           followups[call'.rows[k]].status_reason # "reply_detected"]_vars

\* the handler has cancelled two pending rows of the thread, one of them
\* not yet due
C9_Witness ==
    \E h \in Handlers :
        /\ CancelReturned(h)
        /\ Len(handler[h].pending) = 2
        /\ \E k \in DOMAIN handler[h].pending :
              followups[handler[h].pending[k]].scheduled_for > now
        /\ \A k \in DOMAIN handler[h].pending :
              followups[handler[h].pending[k]].status = "cancelled"

\* C10: when run_once returns, it has attempted every row of its batch once,
\* in the fetched order, and each row of the batch is sent if its send
\* returned and skipped if it did not.
C10_BatchIsolation ==
    worker.pc = "done"
        => /\ worker.attempted = worker.batch
           /\ \A j, k \in DOMAIN worker.batch :
                  j # k => worker.batch[j] # worker.batch[k]
           /\ \A k \in DOMAIN worker.batch :
                  LET id == worker.batch[k]
                  IN IF id \in worker.sent_ok
                     THEN followups[id].status = "sent"
                     ELSE followups[id].status = "skipped"

\* a batch of two whose first send raised TokenExpiredError and whose second
\* send returned
C10_Witness ==
    /\ worker.pc = "done"
    /\ Len(worker.batch) = 2
    /\ worker.sent_ok = {worker.batch[2]}
    /\ followups[worker.batch[1]].error_message = "Token expired"
    /\ followups[worker.batch[1]].status = "skipped"
    /\ followups[worker.batch[2]].status = "sent"

\* the answers by which the provider reports the stored history_id as
\* invalid or expired: status 404, or an error whose body names the historyId
StaleReports ==
    {r \in HistoryResponses : r.status = "404" \/ "historyId" \in r.body}

\* C11: when get_history is answered that the stored history_id is invalid
\* or expired, process_message takes the resync, and the resync stores the
\* notification's historyId, returns True, changes no follow-up and sends no
\* automatic reply.
C11_StaleResync ==
    [][\A h \in Handlers :
          /\ \A r \in StaleReports :
                H_GetHistoryWith(h, r)
                    => /\ handler'[h].resync
                       /\ handler'[h].pc \in {"resync", "process"}
                       /\ handler'[h].pc = "process" => handler'[h].changes = <<>>
          /\ (handler[h].resync /\ (H_Resync(h) \/ H_Advance(h)))
                => /\ gmail_tokens'[handler[h].user].history_id = handler[h].history_id
                   /\ handler'[h].pc = "returned" /\ handler'[h].ret
                   /\ followups' = followups
                   /\ auto_replies' = auto_replies]_vars

\* C12: whenever process_message finishes the diff of a user that has a
\* stored history_id and returns True, the user's stored history_id is the
\* notification's historyId.
C12_WatermarkAdvances ==
    [][\A h \in Handlers :
          (H_Advance(h) /\ handler'[h].ret)
              => gmail_tokens'[handler[h].user].history_id
                     = handler[h].history_id]_vars

\* a step of process_message that makes a request to the store: the user and
\* token lookup of a well-formed notification, the token lookup of
\* get_history, the select and the PATCH of the cancellation, the PATCH of
\* the watermark
StoreStep(h) ==
    \/ /\ H_Receive(h)
       /\ Decode(handler'[h].msg.form) = "object"
       /\ handler'[h].msg.emailAddress # NULL
       /\ handler'[h].msg.historyId # NoValue
    \/ H_Baseline(h)
    \/ H_GetHistory(h)
    \/ H_Resync(h)
    \/ H_Message(h)
    \/ H_Patch(h)
    \/ H_Advance(h)

\* the notification callback h was called with is still to be delivered
Redelivered(h) ==
    \E m \in inflight' : [m EXCEPT !.prior = NoPrior]
                             = [Notification(h) EXCEPT !.prior = NoPrior]

\* C13: a step of process_message whose store request fails (the store
\* answers with an HTTP error, or cannot be reached) ends in `return False`,
\* and the callback leaves a notification that returned False to be
\* redelivered.
C13_StoreFailureNacks ==
    [][\A h \in Handlers :
          /\ (store # "up" /\ StoreStep(h))
                => (handler'[h].pc = "returned" /\ ~handler'[h].ret)
          /\ (H_Callback(h) /\ ~handler[h].ret /\ Notification(h) \in inflight)
                => Redelivered(h)]_vars

\* the data cannot be decoded as JSON or base64-encoded JSON, or the object
\* lacks emailAddress or historyId, or no user has the email address
Malformed(n) ==
    \/ Decode(n.form) \in {"JSONDecodeError", "Error"}
    \/ /\ Decode(n.form) = "object"
       /\ \/ n.emailAddress = NULL
          \/ n.historyId = NoValue
          \/ n.emailAddress \notin Users

\* C14: while the store answers, process_message returns True on a
\* malformed or foreign notification, and handling it changes no follow-up
\* and no user's history_id.
C14_MalformedDropped ==
    [][\A h \in Handlers :
          /\ (store = "up" /\ H_Receive(h) /\ Malformed(handler'[h].msg))
                => (handler'[h].pc = "returned" /\ handler'[h].ret)
          /\ (Malformed(handler[h].msg) /\ HandlerStep(h))
                => (followups' = followups /\ gmail_tokens' = gmail_tokens)]_vars

StatusOf(table) ==
    [i \in DOMAIN table |-> <<table[i].status, table[i].status_reason>>]

\* C16: when a notification that was processed through the cancel path and
\* then nacked is processed again, the tables being as the first processing
\* left them, the second processing selects no row to cancel, changes no
\* follow-up's status or status_reason, and returns True.
C16_RedeliveryIdempotent ==
    [][\A h \in Handlers :
          (handler[h].prior # NoPrior /\ handler[h].prior = Snapshot /\ store = "up")
              => /\ H_Message(h) => (handler'[h].pending = <<>> /\ handler'[h].pc = "process")
                 /\ HandlerStep(h) => StatusOf(followups') = StatusOf(followups)
                 /\ H_Advance(h) => handler'[h].ret]_vars

\* the second processing has gone through the select of the thread whose
\* rows the first one cancelled, and has returned True
C16_Witness ==
    \E h \in Handlers :
        /\ handler[h].prior # NoPrior
        /\ handler[h].prior[1] = followups
        /\ handler[h].pc = "returned" /\ handler[h].ret /\ handler[h].diffed
        /\ \E id \in DOMAIN followups :
              /\ followups[id].thread_id \in handler[h].seen
              /\ followups[id].status = "cancelled"
              /\ followups[id].status_reason = "reply_detected"

\* the three rows of the default plan are in the table, all pending
CadencePending ==
    /\ Len(followups) = max_followups
    /\ \A i \in DOMAIN followups : followups[i].status = "pending"

\* C17: with follow-ups scheduled 3, 7 and 14 days after the planning on
\* one thread, a get_due_followups made once the first is due and the second
\* is not returns exactly the first row; when run_once has sent it and marks
\* it, that row is sent with sent_at and the provider's message id, and the
\* two rows not yet due are pending as schedule_followups created them.
C17_DeliveryOfDueRow ==
    [][/\ (PlanDefault /\ now + followup_3_days <= MaxDay)
            => /\ Len(followups') = 3
               /\ \A i \in 1..3 :
                     followups'[i] = NewRecord("u1", "T1", DefaultPlan(now)[i])
       /\ (/\ CadencePending
           /\ followups[1].scheduled_for <= now
           /\ now < followups[2].scheduled_for)
            => /\ get_due_followups(followups, now, BatchLimit) = <<1>>
               /\ W_Fetch => worker'.batch = <<1>>
       /\ (W_MarkSent /\ CadencePending /\ worker.batch = <<1>>)
            => followups' =
                  [followups EXCEPT ![1].status = "sent",
                                    ![1].sent_at = now,
                                    ![1].gmail_message_id = worker.gmail_id]]_vars

\* between day 3 and day 7 a run_once has returned with one row sent: the
\* first row is sent and stamped, the other two are as they were created
C17_Witness ==
    /\ Len(followups) = 3
    /\ worker.pc = "done" /\ worker.stats.sent = 1 /\ worker.batch = <<1>>
    /\ followups[1].status = "sent"
    /\ followups[1].sent_at # NoValue
    /\ followups[1].gmail_message_id # NoValue
    /\ now < followups[2].scheduled_for
    /\ followups[2] = NewRecord("u1", "T1", followups[1].scheduled_for
                                   - followup_1_days + followup_2_days)
    /\ followups[3] = NewRecord("u1", "T1", followups[1].scheduled_for
                                   - followup_1_days + followup_3_days)

\* the row was set to skipped because its send raised TokenExpiredError
TokenExpired(id) ==
    /\ followups[id].status = "skipped"
    /\ followups[id].error_message = ErrorMessage("TokenExpiredError")

\* C18: a follow-up whose send raises TokenExpiredError is set to skipped
\* with the message of the token expiry, which differs from the messages of
\* a Gmail API error, an unexpected error and a missing token; no later
\* run_once fetches that row or sends an email for it.
C18_TokenExpiryPersisted ==
    [][/\ \A o \in SendOutcomes \ {"ok", "TokenExpiredError"} :
             ErrorMessage(o) # ErrorMessage("TokenExpiredError")
       /\ ErrorMessage("TokenExpiredError") # "No Gmail token available"
       /\ (W_MarkFailed /\ worker.error = ErrorMessage("TokenExpiredError"))
             => LET id == worker.batch[worker.idx]
                IN followups' = [followups EXCEPT
                       ![id].status = "skipped",
                       ![id].status_reason = "send_error",
                       ![id].error_message = ErrorMessage("TokenExpiredError")]
       /\ (W_Attempt /\ worker'.pc = "mark_failed")
             => \E o \in SendOutcomes \ {"ok"} : worker'.error = ErrorMessage(o)
       /\ \A id \in DOMAIN followups :
             TokenExpired(id)
                 => /\ followups'[id] = followups[id]
                    /\ sends'[id] = sends[id]
                    /\ W_Fetch => \A k \in DOMAIN worker'.batch :
                                      worker'.batch[k] # id]_vars

\* a row was skipped for an expired token, and a later run_once has
\* returned after sending another row
C18_Witness ==
    \E id \in DOMAIN followups :
        /\ TokenExpired(id)
        /\ sends[id] = 0
        /\ worker.pc = "done"
        /\ worker.stats.sent = 1
        /\ \A k \in DOMAIN worker.batch : worker.batch[k] # id

\* C19: once stop() has been called during run_loop, run_loop returns; it
\* begins at most one more run_once and ends at most one more one-second
\* sleep, it returns with no run_once unfinished, and it begins a run_once
\* only when the previous one has returned.
C19_CooperativeStop ==
    /\ [](loop.ticks <= 1 /\ loop.sleeps <= 1)
    /\ [](loop.pc = "returned" => worker.pc \in {"idle", "done"})
    /\ [][L_Call => worker.pc \in {"idle", "done"}]_vars
    /\ (loop.stopped ~> loop.pc = "returned")

\* stop() came between the test of the flag and the call: run_loop ran one
\* more run_once, which sent a follow-up, and returned without sleeping
C19_Witness ==
    /\ loop.pc = "returned"
    /\ loop.stopped
    /\ loop.ticks = 1
    /\ loop.sleeps = 0
    /\ loop.interval = MaxInterval
    /\ worker.pc = "done"
    /\ worker.stats.sent = 1

\* C20: schedule_followups called with n plan entries appends exactly n rows
\* to the table and leaves the rows it had as they were; the k-th new row is
\* pending, on the original email's thread, of the given user and scheduled
\* for the k-th entry's scheduled_for; the call returns the n new rows.  The
\* rows already in the table are not consulted: this holds as well when they
\* are the rows of an earlier call with the same arguments.
C20_ScheduleCreates ==
    [][ApiSchedule =>
        LET n    == Len(call'.plans)
            base == Len(followups)
        IN /\ Len(followups') = base + n
           /\ \A i \in 1..base : followups'[i] = followups[i]
           /\ \A k \in 1..n :
                /\ followups'[base + k].status = "pending"
                /\ followups'[base + k].thread_id = call'.thread
                /\ followups'[base + k].user_id = call'.user
                /\ followups'[base + k].scheduled_for = call'.plans[k]
           /\ call'.rows = [k \in 1..n |-> base + k]]_vars

\* schedule_followups was called a second time with the arguments of the
\* first call, and its row stands next to the first call's, both pending
C20_Witness ==
    /\ call.op = "schedule_followups"
    /\ Len(call.plans) = 1
    /\ Len(followups) = 2
    /\ call.rows = <<2>>
    /\ \A i \in 1..2 : /\ followups[i].status = "pending"
                       /\ followups[i].user_id = call.user
                       /\ followups[i].thread_id = call.thread
                       /\ followups[i].scheduled_for = call.plans[1]

\* C21: get_followup_config returns a stored row of the campaign when there
\* is one and otherwise the defaults (3, 7 and 14 days, at most 3, enabled);
\* after update_followup_config(c, partial) the configuration read for c
\* shows every field of partial; and calls of update_followup_config made one
\* after the other leave exactly one row for each campaign they named.
C21_ConfigRoundTrip ==
    /\ [][ApiGetConfig =>
            IF \E i \in DOMAIN configs : configs[i].campaign_id = call'.campaign
            THEN \E i \in DOMAIN configs : /\ configs[i].campaign_id = call'.campaign
                                           /\ call'.result = configs[i]
            ELSE /\ call'.result.followup_1_days = 3
                 /\ call'.result.followup_2_days = 7
                 /\ call'.result.followup_3_days = 14
                 /\ call'.result.max_followups = 3
                 /\ call'.result.enabled = "true"]_vars
    /\ [][ApiUpdateConfig =>
            /\ \A f \in ConfigFields :
                  ~Absent(call'.config, f) =>
                      get_followup_config(configs', call'.campaign)[f] = call'.config[f]
            /\ Cardinality({i \in DOMAIN configs' :
                               configs'[i].campaign_id = call'.campaign}) = 1]_vars
    /\ [](\A c \in Campaigns :
             Cardinality({i \in DOMAIN configs : configs[i].campaign_id = c}) <= 1)

\* a campaign was configured by two calls naming different fields: its one
\* row shows the field of the first call and the field of the second
C21_Witness ==
    /\ call.op = "update_followup_config"
    /\ call.campaign = "c1"
    /\ Absent(call.config, "followup_1_days")
    /\ call.config.max_followups = 2
    /\ Len(configs) = 2
    /\ \E i \in DOMAIN configs : /\ configs[i].campaign_id = "c1"
                                 /\ configs[i].followup_1_days = 5
                                 /\ configs[i].max_followups = 2
                                 /\ call.result = configs[i]

\* C22: two instances running run_once concurrently can both fetch a due
\* pending row before either marks it, and the row's email is then sent
\* twice (C22_Witness).  That is the only way to a duplicate: a row is sent
\* at most once by each instance, and the second email goes out from a
\* batch that holds the row although the other instance has sent it and has
\* marked it, or is about to mark it.
C22_DuplicateNeedsOverlap ==
    /\ [](\A id \in Ids : sends[id] <= 2)
    /\ [][\A id \in DOMAIN followups :
            (sends[id] = 1 /\ sends'[id] = 2) =>
                \/ followups[id].status = "sent"
                \/ /\ W2_Attempt
                   /\ worker.pc = "mark_sent"
                   /\ worker.batch[worker.idx] = id
                \/ /\ W_Attempt
                   /\ worker2.pc = "mark_sent"
                   /\ worker2.batch[worker2.idx] = id]_vars

\* both instances hold the row in the batch they are working on, both have
\* sent its email, and the row is marked sent
C22_Witness ==
    \E id \in DOMAIN followups :
        /\ sends[id] = 2
        /\ id \in worker.sent_ok
        /\ id \in worker2.sent_ok
        /\ followups[id].status = "sent"
        /\ worker.pc = "done"
        /\ worker2.pc = "done"

\* C23: the automatic reply is not idempotent.  A notification handled
\* again before the stored history_id has advanced past an inbound message
\* sends a second automatic reply to it (C23_Witness: redelivery after a
\* nack).  What bounds the duplicates is the watermark alone: an automatic
\* reply to a message is sent only by a processing that read a stored
\* history_id older than the message, on a thread with instant respond on.
C23_ReplyOnlyBeforeAdvance ==
    [][\A u \in Users, k \in 1..MaxHistory :
          auto_replies'[u][k] > auto_replies[u][k] =>
              \E h \in Handlers :
                  /\ handler[h].pc = "process"
                  /\ handler[h].user = u
                  /\ handler[h].stored < HistoryIdOf(k)
                  /\ <<u, mailbox[u][k].threadId>> \in instant_respond]_vars

\* the one inbound message of u1 has been answered twice: the first pass
\* replied and was nacked, the redelivery replied again and was acked
C23_Witness ==
    /\ Len(mailbox["u1"]) = 1
    /\ auto_replies["u1"][1] = 2
    /\ gmail_tokens["u1"].history_id = HistoryIdOf(1)
    /\ inflight = {}
    /\ Quiet

\* the message of the diff the handler h is at, and its index in the mailbox
CurrentIndex(h) == handler[h].changes[handler[h].pos]
CurrentMessage(h) == mailbox[handler[h].user][CurrentIndex(h)]

\* C24: while the store answers, process_message does exactly one of two
\* things for an added INBOX message.  On a thread with instant respond
\* enabled it attempts one automatic reply (at most one is sent, to this
\* message) and neither selects nor changes a follow-up; otherwise it sends
\* nothing, selects the pending follow-ups of the thread and cancels them,
\* one PATCH each, with reason reply_detected.
C24_CancelOrReply ==
    [][\A h \in Handlers :
          /\ (/\ H_Message(h)
              /\ store = "up"
              /\ CurrentMessage(h).inbox
              /\ CurrentMessage(h).threadId # NULL)
                => IF <<handler[h].user, CurrentMessage(h).threadId>> \in instant_respond
                   THEN /\ followups' = followups
                        /\ handler'[h].pc = "process"
                        /\ handler'[h].pending = handler[h].pending
                        /\ handler'[h].seen = handler[h].seen
                        /\ \A u \in Users, k \in 1..MaxHistory :
                              IF u = handler[h].user /\ k = CurrentIndex(h)
                              THEN auto_replies'[u][k] \in
                                       {auto_replies[u][k], auto_replies[u][k] + 1}
                              ELSE auto_replies'[u][k] = auto_replies[u][k]
                   ELSE /\ auto_replies' = auto_replies
                        /\ followups' = followups
                        /\ handler'[h].pending =
                               SelectPendingForThread(followups, CurrentMessage(h).threadId)
                        /\ handler'[h].pending # <<>> => handler'[h].pc = "patch"
          /\ (H_Patch(h) /\ store = "up")
                => /\ auto_replies' = auto_replies
                   /\ \A id \in DOMAIN followups :
                         IF id = handler[h].pending[handler[h].ppos]
                         THEN /\ followups'[id].status = "cancelled"
                              /\ followups'[id].status_reason = "reply_detected"
                         ELSE followups'[id] = followups[id]]_vars

\* an inbound message on a thread with instant respond enabled was answered
\* and acknowledged, and the follow-up that was pending on the thread is
\* still pending
C24_Witness ==
    /\ Len(mailbox["u1"]) = 1
    /\ <<"u1", mailbox["u1"][1].threadId>> \in instant_respond
    /\ auto_replies["u1"][1] = 1
    /\ handler["h1"].pc = "returned"
    /\ handler["h1"].ret
    /\ handler["h1"].seen = {}
    /\ handler["h1"].changes = <<1>>
    /\ \E id \in DOMAIN followups :
          /\ followups[id].thread_id = mailbox["u1"][1].threadId
          /\ followups[id].user_id = "u1"
          /\ followups[id].status = "pending"

\* C25: with one worker instance no row is passed to send_email (and sent)
\* more than once, over any number of calls of run_once and whatever the
\* answer of the store to the status write that follows the send.
C25_AtMostOnce == \A id \in Ids : sends[id] <= 1

\* C26: when process_message, not on the no-baseline and not on the resync
\* path, writes a history_id that takes the stored value past an inbound
\* INBOX message on thread T, then an automatic reply has been sent to that
\* message, or no row is pending on T.  (Under SpecHandled the planner adds
\* no row while a processing is in progress, so the rows of T are those that
\* were there when it began.)
C26_NoReplyLost ==
    [][\A h \in Handlers :
          (H_Advance(h) /\ ~handler[h].resync) =>
              \A k \in DOMAIN mailbox[handler[h].user] :
                  (/\ gmail_tokens[handler[h].user].history_id < HistoryIdOf(k)
                   /\ HistoryIdOf(k) <= gmail_tokens'[handler[h].user].history_id
                   /\ mailbox[handler[h].user][k].inbox
                   /\ mailbox[handler[h].user][k].threadId # NULL)
                      => \/ auto_replies[handler[h].user][k] >= 1
                         \/ \A id \in DOMAIN followups :
                               followups[id].thread_id = mailbox[handler[h].user][k].threadId
                                   => followups[id].status # "pending"]_vars

C28_NoStarvation ==
    \A id \in Ids :
        (/\ id \in DOMAIN followups
         /\ followups[id].status = "pending"
         /\ followups[id].scheduled_for <= now)
            ~> (id \in DOMAIN followups /\ followups[id].status \in Terminal)

\* two rows planned for the same moment were due together, the batches held
\* one row each, and the second row was delivered by a later call of run_once
C28_Witness ==
    /\ Len(followups) = 2
    /\ followups[1].scheduled_for = followups[2].scheduled_for
    /\ followups[1].status \in Terminal
    /\ followups[2].status = "sent"
    /\ worker.batch = <<2>>
    /\ worker.pc = "done"
    /\ sends[2] = 1

\* C29: a message of the diff that lacks the INBOX label or has no threadId
\* is passed over: the step of the message loop changes no follow-up, sends
\* no automatic reply and selects nothing to cancel.  In particular the
\* record of a follow-up the delivery worker sent leaves the pending
\* follow-ups of its thread pending (C29_Witness).
C29_OnlyInboxCounts ==
    [][\A h \in Handlers :
          (/\ H_Message(h)
           /\ \/ ~CurrentMessage(h).inbox
              \/ CurrentMessage(h).threadId = NULL)
              => /\ followups' = followups
                 /\ auto_replies' = auto_replies
                 /\ handler'[h] = [handler[h] EXCEPT !.pos = @ + 1]]_vars

\* the first follow-up of a thread was sent and recorded by the provider;
\* the handler has diffed that record, with instant respond or not, and has
\* been acknowledged; the second follow-up of the thread is still pending
C29_Witness ==
    /\ Len(followups) = 2
    /\ followups[1].thread_id = followups[2].thread_id
    /\ followups[1].user_id = "u1"
    /\ followups[2].user_id = "u1"
    /\ followups[1].status = "sent"
    /\ followups[2].status = "pending"
    /\ mailbox["u1"] = <<[threadId |-> followups[1].thread_id, inbox |-> FALSE]>>
    /\ gmail_tokens["u1"].history_id = HistoryIdOf(1)
    /\ handler["h1"].pc = "returned"
    /\ handler["h1"].ret
    /\ handler["h1"].changes = <<1>>
    /\ handler["h1"].pos = 2

\* C30: an exception raised out of run_once does not end run_loop.  The
\* loop catches it and goes to its sleep; unless stop() is called it begins
\* the next run_once; and run_loop returns only after stop() was called.
C30_LoopSurvivesErrors ==
    /\ [](loop.pc = "returned" => loop.stopped)
    /\ [][L_Except => loop'.pc = "for"]_vars
    /\ ((loop.pc = "run_once" /\ worker.pc = "raised")
            ~> (loop.stopped \/ (loop.pc = "run_once" /\ worker.pc = "idle")))

\* the PATCH of mark_followup_failed raised inside an except clause of
\* run_once; run_loop has slept its whole interval since, has found the flag
\* still set and is about to call run_once again
C30_Witness ==
    /\ loop.pc = "call"
    /\ ~loop.stopped
    /\ loop.interval = MaxInterval
    /\ loop.i = MaxInterval
    /\ worker.pc = "raised"
    /\ worker.batch # <<>>

\* C31: when the store holds no token row for the user of the row run_once
\* is at, the step passes nothing to send_email, sets the row to skipped
\* with "No Gmail token available", counts it as skipped and goes on to the
\* next row of the batch (or returns when it was the last).
C31_MissingCredentialSkips ==
    [][(worker.pc = "attempt" /\ worker' # worker
          /\ ~gmail_tokens[followups[worker.batch[worker.idx]].user_id].present)
       => LET id == worker.batch[worker.idx]
          IN /\ sends' = sends
             /\ followups'[id].status = "skipped"
             /\ followups'[id].error_message = "No Gmail token available"
             /\ worker'.stats.skipped = worker.stats.skipped + 1
             /\ worker'.stats.sent = worker.stats.sent
             /\ IF worker.idx < Len(worker.batch)
                THEN worker'.pc = "attempt" /\ worker'.idx = worker.idx + 1
                ELSE worker'.pc = "done"]_vars

\* a batch of two rows: the first belongs to a user without a token row and
\* was skipped without a send, the second has been sent
C31_Witness ==
    /\ worker.pc = "done"
    /\ Len(worker.attempted) = 2
    /\ LET a == worker.attempted[1]
           b == worker.attempted[2]
       IN /\ ~gmail_tokens[followups[a].user_id].present
          /\ followups[a].status = "skipped"
          /\ sends[a] = 0
          /\ followups[b].status = "sent"
          /\ sends[b] = 1

\* C32: a notification received while the token row of its user has no
\* history_id is never passed on to get_history; the step that follows
\* stores the notification's historyId as the user's history_id and returns
\* True, and it changes no follow-up and sends no automatic reply.
C32_FirstNotificationBaseline ==
    /\ [][\A h \in Handlers :
            (handler[h].pc = "idle" /\ handler'[h].pc = "history")
            => gmail_tokens[handler'[h].user].history_id # NoValue]_vars
    /\ [][\A h \in Handlers :
            (handler[h].pc = "baseline" /\ handler'[h] # handler[h])
            => /\ gmail_tokens'[handler[h].user].history_id = handler[h].history_id
               /\ handler'[h].pc = "returned"
               /\ handler'[h].ret
               /\ ~handler'[h].diffed
               /\ handler'[h].changes = <<>>
               /\ followups' = followups
               /\ auto_replies' = auto_replies]_vars

\* the baseline was stored for a user with no history_id, while the mailbox
\* holds an inbound message on a thread that has a pending follow-up and on a
\* thread that has instant respond enabled
C32_Witness ==
    \E h \in Handlers :
        /\ handler[h].pc = "returned"
        /\ handler[h].ret
        /\ handler[h].stored = NoValue
        /\ ~handler[h].diffed
        /\ gmail_tokens[handler[h].user].history_id = handler[h].history_id
        /\ handler[h].history_id # NoValue
        /\ \E k \in DOMAIN mailbox[handler[h].user], id \in DOMAIN followups :
              /\ mailbox[handler[h].user][k].inbox
              /\ followups[id].thread_id = mailbox[handler[h].user][k].threadId
              /\ followups[id].user_id = handler[h].user
              /\ followups[id].status = "pending"
        /\ \E k \in DOMAIN mailbox[handler[h].user] :
              /\ mailbox[handler[h].user][k].inbox
              /\ <<handler[h].user, mailbox[handler[h].user][k].threadId>>
                     \in instant_respond

\* C33: with the notifications of a user handled one at a time and each
\* delivered once (under SpecOnce every processing returns True and is
\* acked), no inbound message has received more than one automatic reply.
C33_OneAutoReplyPerMessage ==
    \A u \in Users, k \in 1..MaxHistory : auto_replies[u][k] <= 1

\* C34: the processing of a notification of user U changes the status of
\* rows of U only: a row whose status changes belongs to the user of a
\* handler that is in cancel_followups_for_thread, also when a row of
\* another user carries the same thread_id.
C34_UserIsolation ==
    [][\A id \in DOMAIN followups :
          followups'[id].status # followups[id].status
          => \E h \in Handlers : /\ handler[h].pc = "patch"
                                 /\ followups[id].user_id = handler[h].user]_vars

\* C35: whenever run_once has returned, processed = sent + failed + skipped,
\* processed is the number of rows fetched for the tick and at most 50, and
\* sent is the number of rows whose send_email call returned without raising.
C35_StatsAddUp ==
    worker.pc = "done"
    => /\ worker.stats.processed
            = worker.stats.sent + worker.stats.failed + worker.stats.skipped
       /\ worker.stats.processed = Len(worker.batch)
       /\ worker.stats.processed <= BatchLimit
       /\ worker.stats.sent = Cardinality(worker.sent_ok)

====
